---- MODULE Spec2Model ----
(***************************************************************************)
(* Model of the hot-dog classifier server: the multer upload filter, the   *)
(* POST /api/classify handler with its S3 / PostgreSQL persistence, and    *)
(* the database start-up sequence (connection probe, one-shot table        *)
(* initialisation).                                                        *)
(*                                                                         *)
(* Strings the code inspects (file names, MIME types, classifier replies)  *)
(* are sequences of one-character strings, so that trim, toLowerCase,      *)
(* path.extname and RegExp.test are computed rather than assumed.          *)
(* An optional value (null / undefined in the code) is a sequence of       *)
(* length 0, a present value v is <<v>>.                                   *)
(***************************************************************************)
EXTENDS Integers, Sequences, FiniteSets, TLC

VARIABLES
  env,         \* process.env: which of OPENAI_KEY, S3_BUCKET_NAME, DB_HOST are set
  reqs,        \* per POST /api/classify request: position in the handler and its locals
  uploads,     \* requests whose temporary file exists in the uploads directory
  s3Objects,   \* keys of the objects stored in the S3 bucket
  rows,        \* the classification_history table, in insertion order
  now,         \* the wall clock (Date.now())
  db,          \* the database server: "up" (and never down so far), "down", "back"
  table,       \* classification_history: "absent", or who created it: "script", "server"
  dbConnected, \* the dbConnected flag of the start-up block
  probes,      \* testDatabaseConnection calls in flight, by stage
  initTimer,   \* the 2000 ms setTimeout: "armed", "fired" or "off"
  initPc,      \* position of initializeDatabase
  clients,     \* pool clients checked out and not released
  hist,        \* the GET /api/history request being served
  stat,        \* the GET /api/db-status request being served
  ui,          \* the React client: page, form and history panel
  newerRows,   \* rows of other browsers' requests with a later timestamp than the client's
  deploy       \* a run of scripts/deploy.sh

vars == <<env, reqs, uploads, s3Objects, rows, now, db, table,
          dbConnected, probes, initTimer, initPc, clients, hist, stat, ui, newerRows, deploy>>

reqVars == <<reqs, uploads, s3Objects, rows>>
dbVars == <<db, table, dbConnected, probes, initTimer, initPc, clients>>
sideVars == <<hist, stat, ui, newerRows, deploy>>

(* ------------------------------ bounds -------------------------------- *)

MaxRequests == 1
MaxClock == 1
MaxProbes == 2
MaxClients == 2
MaxRows == 2
MaxFetches == 2
MaxPosts == 2

Requests == 1..MaxRequests

None == <<>>
Some(v) == <<v>>

(* --------------------------- string helpers --------------------------- *)

WhiteSpace == {" ", "\t", "\n", "\r"}

RECURSIVE TrimStart(_)
TrimStart(s) ==
  IF s # <<>> /\ Head(s) \in WhiteSpace THEN TrimStart(Tail(s)) ELSE s

RECURSIVE TrimEnd(_)
TrimEnd(s) ==
  IF s # <<>> /\ s[Len(s)] \in WhiteSpace
    THEN TrimEnd(SubSeq(s, 1, Len(s) - 1))
    ELSE s

Trim(s) == TrimEnd(TrimStart(s))

UpperChars == <<"A","B","C","D","E","F","G","H","I","J","K","L","M",
                "N","O","P","Q","R","S","T","U","V","W","X","Y","Z">>
LowerChars == <<"a","b","c","d","e","f","g","h","i","j","k","l","m",
                "n","o","p","q","r","s","t","u","v","w","x","y","z">>

LowerChar(c) ==
  IF \E i \in 1..Len(UpperChars) : UpperChars[i] = c
    THEN LowerChars[CHOOSE i \in 1..Len(UpperChars) : UpperChars[i] = c]
    ELSE c

ToLowerCase(s) == [i \in 1..Len(s) |-> LowerChar(s[i])]

Max(S) == CHOOSE x \in S : \A y \in S : y <= x

(* path.extname: from the last "." of the last path segment to the end;   *)
(* "" when there is no "." or the "." is the segment's first character.   *)
PathExtname(p) ==
  LET slashes == {i \in 1..Len(p) : p[i] = "/"}
      startPart == IF slashes = {} THEN 1 ELSE Max(slashes) + 1
      dots == {i \in startPart..Len(p) : p[i] = "."}
  IN IF dots = {} \/ Max(dots) = startPart
       THEN <<>>
       ELSE SubSeq(p, Max(dots), Len(p))

(* RegExp.prototype.test for an unanchored alternation of literals.       *)
RegexTest(alternatives, s) ==
  \E a \in alternatives :
    \E i \in 1..(Len(s) - Len(a) + 1) : SubSeq(s, i, i + Len(a) - 1) = a

(* ------------------------------ fileFilter ---------------------------- *)

allowedTypes ==
  { <<"j","p","e","g">>, <<"j","p","g">>, <<"p","n","g">>,
    <<"g","i","f">>, <<"w","e","b","p">> }

FilterError ==
  "Only image files are allowed (jpeg, jpg, png, gif, webp)"

(* The fileFilter callback: TRUE for cb(null, true), FALSE for cb(new Error). *)
fileFilter(file) ==
  LET extname == RegexTest(allowedTypes, ToLowerCase(PathExtname(file.originalname)))
      mimetype == RegexTest(allowedTypes, file.mimetype)
  IN mimetype /\ extname

(* --------------------------- normalisation ---------------------------- *)

HotDog == <<"H","o","t"," ","D","o","g">>
NotHotDog == <<"N","o","t"," ","H","o","t"," ","D","o","g">>

ResponseTextNoTrim(completion) ==
  IF completion.choices = <<>> THEN NotHotDog
  ELSE IF completion.choices[1] = None THEN NotHotDog
  ELSE LET t == completion.choices[1][1]
       IN IF t = <<>> THEN NotHotDog ELSE t

(* completion.choices[0]?.message?.content?.trim() || 'Not Hot Dog'       *)
ResponseText(completion) ==
  IF completion.choices = <<>> THEN NotHotDog
  ELSE IF completion.choices[1] = None THEN NotHotDog
  ELSE LET t == Trim(completion.choices[1][1])
       IN IF t = <<>> THEN NotHotDog ELSE t

NormalizePassThrough(response) == response

(* response === 'Hot Dog' ? 'Hot Dog' : 'Not Hot Dog'                     *)
Normalize(response) == IF response = HotDog THEN HotDog ELSE NotHotDog

(* ------------------------------ inputs -------------------------------- *)

JpgName == <<"a",".","j","p","g">>
UpperPngName == <<"b",".","P","N","G">>
PngxName == <<"c",".","p","n","g","x">>
TxtName == <<"d",".","t","x","t">>
DotGifName == <<".","g","i","f">>

ImageJpeg == <<"i","m","a","g","e","/","j","p","e","g">>
ImagePng == <<"i","m","a","g","e","/","p","n","g">>
ImageGif == <<"i","m","a","g","e","/","g","i","f">>
TextXPng == <<"t","e","x","t","/","x","-","p","n","g">>
TextPlain == <<"t","e","x","t","/","p","l","a","i","n">>

FileSizeLimit == 10 * 1024 * 1024

File(n, m, sz) == [originalname |-> n, mimetype |-> m, size |-> sz]

(* Every combination of name, MIME type and size: the upload filter's inputs. *)
AllFiles ==
  { File(n, m, sz) :
      n \in {JpgName, UpperPngName, PngxName, TxtName, DotGifName},
      m \in {ImageJpeg, ImagePng, ImageGif, TextXPng, TextPlain},
      sz \in {1024, FileSizeLimit, FileSizeLimit + 1} }

(* The uploads of the request-handling specification.                     *)
Files ==
  { File(JpgName, ImageJpeg, 1024),
    File(PngxName, TextXPng, 1024),
    File(TxtName, ImagePng, 1024),
    File(JpgName, ImageJpeg, FileSizeLimit + 1) }

Models == {"gpt-4o", "gpt-4o-2024-08-06"}

Cores ==
  { <<>>,
    HotDog,
    NotHotDog,
    <<"h","o","t"," ","d","o","g">>,
    HotDog \o <<".">>,
    <<"H","o","t"," ","\n","D","o","g">> }

Pads == { <<>>, <<" ">>, <<"\n">>, <<"\t"," ">> }

(* Every padded reply text: the normalisation's inputs.                   *)
AllTexts == { l \o c \o r : l \in Pads, c \in Cores, r \in Pads }

Completion(m, ch) == [model |-> m, choices |-> ch]

(* A completion has no choice, a choice without content, or a text.       *)
AllCompletions ==
  { Completion(m, ch) :
      m \in Models,
      ch \in {<<>>, <<None>>} \cup { <<Some(t)>> : t \in AllTexts } }

(* The replies of the request-handling specification.                     *)
Completions ==
  { Completion("gpt-4o", <<Some(HotDog)>>),
    Completion("gpt-4o-2024-08-06", <<Some(<<" ">> \o HotDog \o <<"\n">>)>>),
    Completion("gpt-4o", <<Some(<<"h","o","t"," ","d","o","g">>)>>),
    Completion("gpt-4o-2024-08-06", <<None>>) }

(* ------------------------------- state -------------------------------- *)

pool == env.DB_HOST
s3Client == env.S3_BUCKET_NAME
dbUp == db \in {"up", "back"}
tableExists == table # "absent"

NewRequest ==
  [ pc |-> "idle",            \* position in the middleware / handler
    upload |-> None,          \* the "image" part of the multipart body
    file |-> None,            \* req.file
    timestamp |-> None,       \* const timestamp
    completion |-> None,      \* const completion
    result |-> None,          \* const result
    s3Key |-> None,           \* let s3Key
    error |-> None,           \* the error caught by the outer catch
    classifierCalls |-> 0,    \* openai.chat.completions.create calls issued
    s3Attempts |-> 0,         \* uploadToS3 calls issued
    dbAttempts |-> 0,         \* pool.query INSERT calls issued
    unlinkAttempts |-> 0,     \* unlink calls issued
    unlinkFailed |-> FALSE,   \* an unlink call was rejected
    s3Failed |-> FALSE,       \* 'S3 upload error:' was logged
    dbFailed |-> FALSE,       \* 'Database insert error:' was logged
    responses |-> <<>> ]      \* responses sent, in order

NewHistory ==
  [ pc |-> "idle",            \* position in the handler
    query |-> [limit |-> None, offset |-> None],   \* req.query
    limit |-> 0,              \* const limit
    offset |-> 0,             \* const offset
    selected |-> <<>>,        \* result.rows
    presignFailed |-> {},     \* rows for which 'Error generating presigned URL:' was logged
    responses |-> <<>> ]      \* responses sent, in order

NewStatus ==
  [ pc |-> "idle",            \* position in the handler
    responses |-> <<>> ]      \* responses sent, in order

(* The client after its first render: the mount effect has called         *)
(* fetchHistory once.                                                     *)
NewUi ==
  [ page |-> "home",          \* currentPage
    selectedFile |-> FALSE,   \* Home: a file is selected
    loading |-> FALSE,        \* Home: loading
    result |-> None,          \* Home: result
    error |-> FALSE,          \* Home: error is set
    posts |-> [live |-> 0, stale |-> 0],   \* POSTs of /api/classify in flight: of the
                              \* mounted Home, and of Home instances unmounted since
    history |-> {},           \* App: the requests whose record is in the displayed list
    fetches |-> [sent |-> 1, hit |-> 0, miss |-> 0],   \* fetchHistory calls in flight
    left |-> FALSE,           \* the user has left the home page
    failed |-> FALSE ]        \* a history fetch has failed

NewDeploy ==
  [ pc |-> "start",           \* the command the script is about to run
    tfvarsMissing |-> FALSE,  \* terraform.tfvars was not found
    response |-> None,        \* $response
    log |-> <<>>,             \* the commands run under set -e, with their outcome
    exit |-> None ]           \* the exit status, once the script has ended

Init ==
  /\ env \in [OPENAI_KEY : BOOLEAN, S3_BUCKET_NAME : BOOLEAN, DB_HOST : BOOLEAN]
  /\ reqs = [r \in Requests |-> NewRequest]
  /\ uploads = {}
  /\ s3Objects = {}
  /\ rows = <<>>
  /\ now = 0
  /\ db \in {"up", "down"}
  /\ table \in {"absent", "script"}
  /\ dbConnected = FALSE
  /\ probes = IF pool THEN [connect |-> 1, query |-> 0] ELSE [connect |-> 0, query |-> 0]
  /\ initTimer = IF pool THEN "armed" ELSE "off"
  /\ initPc = "idle"
  /\ clients = 0
  /\ hist = NewHistory
  /\ stat = NewStatus
  /\ ui = NewUi
  /\ newerRows = 0
  /\ deploy = NewDeploy

(* ------------------------- POST /api/classify ------------------------- *)

Respond(rq, resp) ==
  [rq EXCEPT !.pc = "done", !.responses = Append(@, resp)]

OnFilterErrorNext(rq, part) ==
  [rq EXCEPT !.pc = "handler", !.upload = part, !.file = part]

(* cb(new Error(...)): multer passes the error on and the route handler   *)
(* is skipped.                                                            *)
OnFilterError(rq, part) ==
  Respond([rq EXCEPT !.upload = part], [status |-> 500, error |-> FilterError])

(* upload.single('image'): the type filter, the size limit, disk storage. *)
(* An error of the middleware skips the route handler: Express's default  *)
(* error handler answers 500 and nothing is left in the uploads directory. *)
Upload(r, part) ==
  /\ reqs[r].pc = "idle"
  /\ IF part = None
       THEN /\ reqs' = [reqs EXCEPT ![r].pc = "handler"]
            /\ UNCHANGED uploads
       ELSE LET f == part[1] IN
            IF ~fileFilter(f)
              THEN /\ reqs' = [reqs EXCEPT ![r] = OnFilterError(@, part)]
                   /\ UNCHANGED uploads
            ELSE IF f.size > FileSizeLimit
              THEN /\ reqs' = [reqs EXCEPT ![r] =
                          Respond([@ EXCEPT !.upload = part],
                                  [status |-> 500, error |-> "File too large"])]
                   /\ UNCHANGED uploads
            ELSE /\ reqs' = [reqs EXCEPT ![r].pc = "handler",
                                         ![r].upload = part,
                                         ![r].file = part]
                 /\ uploads' = uploads \cup {r}
  /\ UNCHANGED <<env, s3Objects, rows, now, dbVars, sideVars>>

(* The handler up to its first await.                                     *)
ClassifyEntryKeyFirst(rq, e, t) ==
  IF ~e.OPENAI_KEY
    THEN Respond(rq, [status |-> 500, error |-> "OpenAI API key is not configured"])
  ELSE IF rq.file = None
    THEN Respond(rq, [status |-> 400, error |-> "No image file provided"])
  ELSE [rq EXCEPT !.timestamp = Some(t), !.pc = "readFile"]

ClassifyEntry(rq, e, t) ==
  IF rq.file = None
    THEN Respond(rq, [status |-> 400, error |-> "No image file provided"])
  ELSE IF ~e.OPENAI_KEY
    THEN [rq EXCEPT !.pc = "unlinkNoKey", !.unlinkAttempts = @ + 1]
  ELSE [rq EXCEPT !.timestamp = Some(t), !.pc = "readFile"]

Classify(r) ==
  /\ reqs[r].pc = "handler"
  /\ reqs' = [reqs EXCEPT ![r] = ClassifyEntry(@, env, now)]
  /\ UNCHANGED <<env, uploads, s3Objects, rows, now, dbVars, sideVars>>

(* fs.unlink settles: the file is gone, or the rejection is logged.       *)
Unlinked(r, ok) == IF ok THEN uploads \ {r} ELSE uploads

AfterUnlinkThrow(rq, ok, resp) ==
  IF ok THEN Respond(rq, resp) ELSE [rq EXCEPT !.pc = "done", !.unlinkFailed = TRUE]

(* .catch(console.error): a rejected unlink is logged and the handler     *)
(* goes on to send its response.                                          *)
AfterUnlink(rq, ok, resp) ==
  Respond([rq EXCEPT !.unlinkFailed = @ \/ ~ok], resp)

UnlinkNoKey(r, ok) ==
  /\ reqs[r].pc = "unlinkNoKey"
  /\ uploads' = Unlinked(r, ok)
  /\ reqs' = [reqs EXCEPT ![r] =
        AfterUnlink(@, ok, [status |-> 500, error |-> "OpenAI API key is not configured"])]
  /\ UNCHANGED <<env, s3Objects, rows, now, dbVars, sideVars>>

CatchNoUnlink(rq, msg) ==
  Respond([rq EXCEPT !.error = Some(msg)], [status |-> 500, error |-> msg])

(* Entering the outer catch block: unlink is issued.                      *)
Catch(rq, msg) ==
  [rq EXCEPT !.error = Some(msg), !.pc = "unlinkCatch", !.unlinkAttempts = @ + 1]

(* imageToBase64 settles; on success the classifier call is issued.       *)
ReadFileDone(r, ok) ==
  /\ reqs[r].pc = "readFile"
  /\ reqs' = [reqs EXCEPT ![r] =
        IF ok THEN [@ EXCEPT !.pc = "openai", !.classifierCalls = @ + 1]
              ELSE Catch(@, "ENOENT: no such file or directory")]
  /\ UNCHANGED <<env, uploads, s3Objects, rows, now, dbVars, sideVars>>

(* The success path after normalisation: S3, then the insert, then unlink. *)
StartUnlink(rq) ==
  [rq EXCEPT !.pc = "unlinkOk", !.unlinkAttempts = @ + 1]

StartInsert(rq, e) ==
  IF e.DB_HOST
    THEN [rq EXCEPT !.pc = "db", !.dbAttempts = @ + 1]
    ELSE StartUnlink(rq)

StartS3(rq, e) ==
  IF e.S3_BUCKET_NAME
    THEN [rq EXCEPT !.pc = "s3", !.s3Attempts = @ + 1]
    ELSE StartInsert(rq, e)

OnClassifierErrorPersist(rq, msg) ==
  [Catch(rq, msg) EXCEPT !.dbAttempts = @ + 1]

OnClassifierError(rq, msg) == Catch(rq, msg)

(* openai.chat.completions.create settles: a completion, or a rejection.  *)
OpenAIDone(r, outcome) ==
  /\ reqs[r].pc = "openai"
  /\ reqs' = [reqs EXCEPT ![r] =
        IF outcome = None
          THEN OnClassifierError(@, "Connection error.")
          ELSE StartS3([@ EXCEPT !.completion = outcome,
                                 !.result = Some(Normalize(ResponseText(outcome[1])))],
                       env)]
  /\ UNCHANGED <<env, uploads, s3Objects, rows, now, dbVars, sideVars>>

(* images/${Date.now()}-${fileName}; multer's file name is unique per request. *)
S3Key(t, r) == [time |-> t, filename |-> r]

OnS3ErrorKeepKey(rq, key) == [rq EXCEPT !.s3Failed = TRUE, !.s3Key = Some(key)]

(* 'S3 upload error:' is logged and s3Key stays null.                     *)
OnS3Error(rq, key) == [rq EXCEPT !.s3Failed = TRUE]

(* uploadToS3 settles (readFile, then PutObject).                         *)
S3Done(r, ok) ==
  /\ reqs[r].pc = "s3"
  /\ IF ok
       THEN /\ s3Objects' = s3Objects \cup {S3Key(now, r)}
            /\ reqs' = [reqs EXCEPT ![r] =
                  StartInsert([@ EXCEPT !.s3Key = Some(S3Key(now, r))], env)]
       ELSE /\ UNCHANGED s3Objects
            /\ reqs' = [reqs EXCEPT ![r] =
                  StartInsert(OnS3Error(@, S3Key(now, r)), env)]
  /\ UNCHANGED <<env, uploads, rows, now, dbVars, sideVars>>

Row(r, rq) ==
  [ id |-> Len(rows) + 1,
    s3_key |-> rq.s3Key,
    is_hot_dog |-> (rq.result[1] = HotDog),
    model |-> rq.completion[1].model,
    timestamp |-> rq.timestamp[1],
    request_metadata |-> [originalFilename |-> rq.file[1].originalname,
                          mimeType |-> rq.file[1].mimetype],
    req |-> r ]   \* history: the request that inserted the row

InsertRowTwice(tbl, row) == Append(Append(tbl, row), [row EXCEPT !.id = @ + 1])

InsertRow(tbl, row) == Append(tbl, row)

OnInsertErrorThrow(rq) == Catch([rq EXCEPT !.dbFailed = TRUE], "relation does not exist")

OnInsertError(rq) == StartUnlink([rq EXCEPT !.dbFailed = TRUE])

(* pool.query(INSERT ...) settles.                                        *)
InsertDone(r) ==
  /\ reqs[r].pc = "db"
  /\ clients < MaxClients
  /\ IF dbUp /\ tableExists
       THEN /\ rows' = InsertRow(rows, Row(r, reqs[r]))
            /\ reqs' = [reqs EXCEPT ![r] = StartUnlink(@)]
       ELSE /\ UNCHANGED rows
            /\ reqs' = [reqs EXCEPT ![r] = OnInsertError(@)]
  /\ UNCHANGED <<env, uploads, s3Objects, now, dbVars, sideVars>>

(* The unlink of the success path settles and the result is sent.         *)
UnlinkOk(r, ok) ==
  /\ reqs[r].pc = "unlinkOk"
  /\ uploads' = Unlinked(r, ok)
  /\ reqs' = [reqs EXCEPT ![r] =
        AfterUnlink(@, ok, [status |-> 200,
                            result |-> reqs[r].result[1],
                            timestamp |-> reqs[r].timestamp[1],
                            model |-> reqs[r].completion[1].model])]
  /\ UNCHANGED <<env, s3Objects, rows, now, dbVars, sideVars>>

(* The unlink of the catch block settles and the error is sent.           *)
UnlinkCatch(r, ok) ==
  /\ reqs[r].pc = "unlinkCatch"
  /\ uploads' = Unlinked(r, ok)
  /\ reqs' = [reqs EXCEPT ![r] =
        AfterUnlink(@, ok, [status |-> 500, error |-> reqs[r].error[1]])]
  /\ UNCHANGED <<env, s3Objects, rows, now, dbVars, sideVars>>

Tick ==
  /\ now < MaxClock
  /\ now' = now + 1
  /\ UNCHANGED <<env, reqVars, dbVars, sideVars>>

(* ------------------------- database start-up -------------------------- *)

InFlightProbes == probes.connect + probes.query

(* pool.connect() and pool.query() are served only while the pool has a   *)
(* client to hand out; otherwise the call stays queued.                   *)
ClientAvailable == clients < MaxClients

(* testDatabaseConnection: pool.connect() settles.                        *)
ProbeConnected ==
  /\ probes.connect > 0
  /\ ClientAvailable
  /\ IF dbUp
       THEN /\ probes' = [connect |-> probes.connect - 1, query |-> probes.query + 1]
            /\ clients' = clients + 1
            /\ UNCHANGED dbConnected
       ELSE /\ probes' = [probes EXCEPT !.connect = @ - 1]
            /\ dbConnected' = FALSE
            /\ UNCHANGED clients
  /\ UNCHANGED <<env, reqVars, now, db, table, initTimer, initPc, sideVars>>

(* testDatabaseConnection: client.query('SELECT NOW()') settles; the      *)
(* client is released on the success path only.                           *)
ProbeQueried ==
  /\ probes.query > 0
  /\ probes' = [probes EXCEPT !.query = @ - 1]
  /\ dbConnected' = dbUp
  /\ clients' = IF dbUp THEN clients - 1 ELSE clients
  /\ UNCHANGED <<env, reqVars, now, db, table, initTimer, initPc, sideVars>>

(* setInterval(testDatabaseConnection, 30000): later than the 2000 ms timer. *)
ProbeInterval ==
  /\ pool
  /\ initTimer = "fired"
  /\ InFlightProbes < MaxProbes
  /\ probes' = [probes EXCEPT !.connect = @ + 1]
  /\ UNCHANGED <<env, reqVars, now, db, table, dbConnected, initTimer, initPc,
                 clients, sideVars>>

InitTimeoutAlways(connected) == "connect"

(* The setTimeout callback: initializeDatabase runs only if dbConnected.  *)
InitTimeout(connected) == IF connected THEN "connect" ELSE "idle"

InitTimerFired ==
  /\ initTimer = "armed"
  /\ initTimer' = "fired"
  /\ initPc' = InitTimeout(dbConnected)
  /\ UNCHANGED <<env, reqVars, now, db, table, dbConnected, probes, clients, sideVars>>

InitNextPc(p) ==
  CASE p = "connect" -> "create"
    [] p = "create" -> "index1"
    [] p = "index1" -> "index2"
    [] p = "index2" -> "index3"
    [] p = "index3" -> "done"

(* initializeDatabase: pool.connect() or one of its four queries settles; *)
(* the client is released after the last query only.                      *)
InitStep ==
  /\ initPc \in {"connect", "create", "index1", "index2", "index3"}
  /\ initPc = "connect" => ClientAvailable
  /\ IF dbUp
       THEN /\ initPc' = InitNextPc(initPc)
            /\ table' = IF initPc = "create" /\ table = "absent" THEN "server" ELSE table
            /\ clients' = CASE initPc = "connect" -> clients + 1
                             [] initPc = "index3" -> clients - 1
                             [] OTHER -> clients
       ELSE /\ initPc' = "failed"
            /\ UNCHANGED <<table, clients>>
  /\ UNCHANGED <<env, reqVars, now, db, dbConnected, probes, initTimer, sideVars>>

(* The environment: the database becomes unreachable, or reachable again. *)
DbOutage ==
  /\ dbUp
  /\ db' = "down"
  /\ UNCHANGED <<env, reqVars, now, table, dbConnected, probes, initTimer, initPc,
                 clients, sideVars>>

DbRecovery ==
  /\ db = "down"
  /\ db' = "back"
  /\ UNCHANGED <<env, reqVars, now, table, dbConnected, probes, initTimer, initPc,
                 clients, sideVars>>

(* -------------------------- GET /api/history -------------------------- *)

DigitChars == <<"0","1","2","3","4","5","6","7","8","9">>
IsDigit(c) == \E i \in 1..Len(DigitChars) : DigitChars[i] = c
DigitValue(c) == (CHOOSE i \in 1..Len(DigitChars) : DigitChars[i] = c) - 1

(* The longest prefix of decimal digits.                                  *)
RECURSIVE DigitPrefix(_)
DigitPrefix(s) ==
  IF s # <<>> /\ IsDigit(Head(s)) THEN <<Head(s)>> \o DigitPrefix(Tail(s)) ELSE <<>>

RECURSIVE DecimalValue(_)
DecimalValue(ds) ==
  IF ds = <<>> THEN 0
  ELSE 10 * DecimalValue(SubSeq(ds, 1, Len(ds) - 1)) + DigitValue(ds[Len(ds)])

(* parseInt on a decimal string: leading white space, a sign, the digit   *)
(* prefix; None is NaN (also for an absent parameter).                    *)
ParseInt(param) ==
  IF param = None THEN None
  ELSE LET t == TrimStart(param[1])
           signed == t # <<>> /\ Head(t) \in {"-", "+"}
           body == IF signed THEN Tail(t) ELSE t
           ds == DigitPrefix(body)
       IN IF ds = <<>> THEN None
          ELSE IF signed /\ Head(t) = "-" THEN Some(0 - DecimalValue(ds))
          ELSE Some(DecimalValue(ds))

DefaultLimit == 50
DefaultOffset == 0

OrDefaultKeepZero(parsed, default) ==
  IF parsed = None THEN default ELSE parsed[1]

(* parseInt(...) || default: NaN and 0 are falsy.                         *)
OrDefault(parsed, default) ==
  IF parsed = None \/ parsed[1] = 0 THEN default ELSE parsed[1]

RespondHistory(h, resp) ==
  [h EXCEPT !.pc = "done", !.responses = Append(@, resp)]

HistoryEntryNoPoolCheck(q, e) ==
  [NewHistory EXCEPT !.pc = "query", !.query = q,
                     !.limit = OrDefault(ParseInt(q.limit), DefaultLimit),
                     !.offset = OrDefault(ParseInt(q.offset), DefaultOffset)]

(* The handler up to its first await.                                     *)
HistoryEntry(q, e) ==
  IF ~e.DB_HOST
    THEN RespondHistory([NewHistory EXCEPT !.query = q],
                        [status |-> 500, error |-> "Database not configured"])
    ELSE [NewHistory EXCEPT !.pc = "query", !.query = q,
                            !.limit = OrDefault(ParseInt(q.limit), DefaultLimit),
                            !.offset = OrDefault(ParseInt(q.offset), DefaultOffset)]

HistoryRequest(q) ==
  /\ hist.pc \in {"idle", "done"}
  /\ hist' = HistoryEntry(q, env)
  /\ UNCHANGED <<env, reqVars, now, dbVars, stat, ui, newerRows, deploy>>

(* ORDER BY timestamp DESC: rows with equal timestamps come in any order. *)
TimestampOrders ==
  { o \in Permutations(1..Len(rows)) :
      \A i, j \in 1..Len(rows) :
        i < j => rows[o[i]].timestamp >= rows[o[j]].timestamp }

Min(a, b) == IF a <= b THEN a ELSE b

SelectRowsNoOffset(o, limit, offset) ==
  [i \in 1..Min(limit, Len(rows)) |-> rows[o[i]]]

(* LIMIT $1 OFFSET $2 over the ordered rows.                              *)
SelectRows(o, limit, offset) ==
  LET n == IF Len(rows) - offset < 0 THEN 0 ELSE Min(limit, Len(rows) - offset)
  IN [i \in 1..n |-> rows[o[offset + i]]]

(* pool.query(SELECT ...) settles: PostgreSQL rejects a negative LIMIT or *)
(* OFFSET, as it rejects the query when the table is missing.             *)
HistoryQueryDone(o) ==
  /\ hist.pc = "query"
  /\ ClientAvailable
  /\ hist' =
       IF ~dbUp
         THEN RespondHistory(hist, [status |-> 500, error |-> "Connection terminated"])
       ELSE IF ~tableExists
         THEN RespondHistory(hist, [status |-> 500, error |-> "relation does not exist"])
       ELSE IF hist.limit < 0
         THEN RespondHistory(hist, [status |-> 500, error |-> "LIMIT must not be negative"])
       ELSE IF hist.offset < 0
         THEN RespondHistory(hist, [status |-> 500, error |-> "OFFSET must not be negative"])
       ELSE [hist EXCEPT !.pc = "presign",
                         !.selected = SelectRows(o, hist.limit, hist.offset)]
  /\ UNCHANGED <<env, reqVars, now, dbVars, stat, ui, newerRows, deploy>>

SignedUrl(key) == [signedUrlFor |-> key]

(* The rows for which getSignedUrl is called.                             *)
Presigned(selected, e) ==
  {i \in 1..Len(selected) : selected[i].s3_key # None /\ e.S3_BUCKET_NAME}

LabelSwapped(isHotDog) == IF isHotDog THEN NotHotDog ELSE HotDog

(* row.is_hot_dog ? 'Hot Dog' : 'Not Hot Dog'                             *)
Label(isHotDog) == IF isHotDog THEN HotDog ELSE NotHotDog

HistoryItem(row, url) ==
  [ id |-> row.id,
    result |-> Label(row.is_hot_dog),
    model |-> row.model,
    timestamp |-> row.timestamp,
    imageUrl |-> url,
    metadata |-> row.request_metadata ]

HistoryItemsAbortOnFailure(selected, e, failed) ==
  IF failed # {} THEN <<>>
  ELSE [i \in 1..Len(selected) |->
          HistoryItem(selected[i],
                      IF i \in Presigned(selected, e)
                        THEN Some(SignedUrl(selected[i].s3_key[1])) ELSE None)]

(* result.rows.map(...): one item per row; a rejected getSignedUrl leaves *)
(* that item's imageUrl null.                                             *)
HistoryItems(selected, e, failed) ==
  [i \in 1..Len(selected) |->
     HistoryItem(selected[i],
                 IF i \in Presigned(selected, e) /\ i \notin failed
                   THEN Some(SignedUrl(selected[i].s3_key[1]))
                   ELSE None)]

(* Promise.all settles and the history is sent.                           *)
HistoryPresignDone(failed) ==
  /\ hist.pc = "presign"
  /\ failed \subseteq Presigned(hist.selected, env)
  /\ hist' = RespondHistory([hist EXCEPT !.presignFailed = failed],
                            [status |-> 200,
                             history |-> HistoryItems(hist.selected, env, failed)])
  /\ UNCHANGED <<env, reqVars, now, dbVars, stat, ui, newerRows, deploy>>

(* ------------------------- GET /api/db-status ------------------------- *)

RespondStatus(st, resp) ==
  [st EXCEPT !.pc = "done", !.responses = Append(@, resp)]

StatusEntryNoPoolCheck(e, t) == [NewStatus EXCEPT !.pc = "connect"]

(* The handler up to its first await.                                     *)
StatusEntry(e, t) ==
  IF ~e.DB_HOST
    THEN RespondStatus(NewStatus,
                       [status |-> 200, connected |-> FALSE,
                        message |-> "Database not configured", timestamp |-> t])
    ELSE [NewStatus EXCEPT !.pc = "connect"]

StatusRequest ==
  /\ stat.pc \in {"idle", "done"}
  /\ stat' = StatusEntry(env, now)
  /\ UNCHANGED <<env, reqVars, now, dbVars, hist, ui, newerRows, deploy>>

(* pool.connect() settles.                                                *)
StatusConnected ==
  /\ stat.pc = "connect"
  /\ ClientAvailable
  /\ IF dbUp
       THEN /\ stat' = [stat EXCEPT !.pc = "query"]
            /\ clients' = clients + 1
       ELSE /\ stat' = RespondStatus(stat,
                         [status |-> 500, connected |-> FALSE,
                          message |-> "connect ECONNREFUSED", timestamp |-> now])
            /\ UNCHANGED clients
  /\ UNCHANGED <<env, reqVars, now, db, table, dbConnected, probes, initTimer, initPc,
                 hist, ui, newerRows, deploy>>

(* client.query('SELECT NOW()') settles; the client is released on the    *)
(* success path only.                                                     *)
StatusQueried ==
  /\ stat.pc = "query"
  /\ IF dbUp
       THEN /\ stat' = RespondStatus(stat,
                         [status |-> 200, connected |-> TRUE,
                          message |-> "Database connection successful",
                          timestamp |-> now])
            /\ clients' = clients - 1
       ELSE /\ stat' = RespondStatus(stat,
                         [status |-> 500, connected |-> FALSE,
                          message |-> "Connection terminated unexpectedly",
                          timestamp |-> now])
            /\ UNCHANGED clients
  /\ UNCHANGED <<env, reqVars, now, db, table, dbConnected, probes, initTimer, initPc,
                 hist, ui, newerRows, deploy>>

(* ----------------------------- the client ----------------------------- *)

(* The request slot of the browser's own POST /api/classify.              *)
ClientRequest == 1

(* fetch('/api/history?limit=50')                                         *)
ClientLimit == <<"5", "0">>

(* The limit the server derives from the client's query string.           *)
ClientHistoryLimit == OrDefault(ParseInt(Some(ClientLimit)), DefaultLimit)

InFlightFetches == ui.fetches.sent + ui.fetches.hit + ui.fetches.miss

FetchStarted(u) == [u EXCEPT !.fetches.sent = @ + 1]

(* handleFileSelect with a file that passes the client's type and size    *)
(* checks; the inputs are disabled while loading.                         *)
SelectFile ==
  /\ ui.page = "home"
  /\ ~ui.loading
  /\ ~ui.selectedFile
  /\ ui' = [ui EXCEPT !.selectedFile = TRUE, !.error = FALSE, !.result = None]
  /\ UNCHANGED <<env, reqVars, now, dbVars, hist, stat, newerRows, deploy>>

InFlightPosts == ui.posts.live + ui.posts.stale

(* The submit button is enabled with a file selected and loading false;   *)
(* handleSubmit up to the fetch of /api/classify.                         *)
Submit ==
  /\ ui.page = "home"
  /\ ui.selectedFile
  /\ ~ui.loading
  /\ InFlightPosts < MaxPosts
  /\ ui' = [ui EXCEPT !.loading = TRUE, !.error = FALSE, !.result = None,
                      !.posts.live = @ + 1]
  /\ UNCHANGED <<env, reqVars, now, dbVars, hist, stat, newerRows, deploy>>

(* handleSubmit after the fetch settled: resp is the response, or None    *)
(* when fetch rejected. On a 2xx the result is shown, onHistoryUpdate()   *)
(* calls fetchHistory and the form is cleared; otherwise the error is     *)
(* shown; finally loading is reset. The state setters of a Home that was  *)
(* unmounted in the meantime change nothing.                              *)
ClassifyResolved(kind, resp) ==
  /\ ui.posts[kind] > 0
  /\ LET u == [ui EXCEPT !.posts[kind] = @ - 1] IN
     IF resp # None /\ resp[1].status = 200
       THEN /\ InFlightFetches < MaxFetches
            /\ ui' = FetchStarted(IF kind = "live"
                                    THEN [u EXCEPT !.result = Some(resp[1].result),
                                                   !.selectedFile = FALSE,
                                                   !.loading = FALSE]
                                    ELSE u)
       ELSE ui' = IF kind = "live"
                    THEN [u EXCEPT !.error = TRUE, !.loading = FALSE]
                    ELSE u
  /\ UNCHANGED <<env, reqVars, now, dbVars, hist, stat, newerRows, deploy>>

(* setInterval(fetchHistory, 10000), armed while the page is 'home'.      *)
PollTick ==
  /\ ui.page = "home"
  /\ InFlightFetches < MaxFetches
  /\ ui' = FetchStarted(ui)
  /\ UNCHANGED <<env, reqVars, now, dbVars, hist, stat, newerRows, deploy>>

(* setCurrentPage: leaving 'home' unmounts Home and clears the interval;  *)
(* coming back runs the effect again, which fetches at once.              *)
Navigate(page) ==
  /\ page # ui.page
  /\ IF page = "home"
       THEN /\ InFlightFetches < MaxFetches
            /\ ui' = FetchStarted([ui EXCEPT !.page = page])
       ELSE ui' = [ui EXCEPT !.page = page, !.left = TRUE,
                             !.selectedFile = FALSE, !.loading = FALSE,
                             !.result = None, !.error = FALSE,
                             !.posts = [live |-> 0, stale |-> @.stale + @.live]]
  /\ UNCHANGED <<env, reqVars, now, dbVars, hist, stat, newerRows, deploy>>

(* Another browser's classification is persisted with a timestamp later   *)
(* than the client's (taken when the client's handler started).           *)
OtherClassified ==
  /\ reqs[ClientRequest].timestamp # None
  /\ newerRows < ClientHistoryLimit
  /\ newerRows' = newerRows + 1
  /\ UNCHANGED <<env, reqVars, now, dbVars, hist, stat, ui, deploy>>

(* ORDER BY timestamp DESC LIMIT limit: the client's row is selected when *)
(* it exists and fewer than limit rows are newer.                         *)
RecordSelected(limit) ==
  /\ \E i \in 1..Len(rows) : rows[i].req = ClientRequest
  /\ newerRows < limit

(* The server runs the query of one fetch in flight.                      *)
FetchQueried ==
  /\ ui.fetches.sent > 0
  /\ ui' = IF RecordSelected(ClientHistoryLimit)
             THEN [ui EXCEPT !.fetches.sent = @ - 1, !.fetches.hit = @ + 1]
             ELSE [ui EXCEPT !.fetches.sent = @ - 1, !.fetches.miss = @ + 1]
  /\ UNCHANGED <<env, reqVars, now, dbVars, hist, stat, newerRows, deploy>>

SetHistoryKeep(old, data) == old

(* setHistory(data.history || [])                                         *)
SetHistory(old, data) == data

(* fetchHistory after the response: the list is replaced when res.ok,     *)
(* left alone otherwise.                                                  *)
FetchResolved(kind, ok) ==
  /\ ui.fetches[kind] > 0
  /\ LET u == [ui EXCEPT !.fetches[kind] = @ - 1] IN
     IF ok
       THEN ui' = [u EXCEPT !.history =
                     SetHistory(@, IF kind = "hit" THEN {ClientRequest} ELSE {})]
       ELSE ui' = [u EXCEPT !.failed = TRUE]
  /\ UNCHANGED <<env, reqVars, now, dbVars, hist, stat, newerRows, deploy>>

(* -------------------------- scripts/deploy.sh -------------------------- *)

(* The simple commands and pipelines of the script that run under set -e, *)
(* in program order.                                                      *)
Script ==
  << "cd terraform", "terraform init", "terraform plan", "read",
     "terraform apply", "rm tfplan",
     "terraform output ecr_repository_url", "terraform output ecs_cluster_name",
     "terraform output ecs_service_name", "cd ..",
     "aws sts get-caller-identity", "ecr login",
     "docker build", "docker tag", "docker push",
     "aws ecs update-service", "terraform output alb_dns_name", "cd .. (end)" >>

ScriptIndex(cmd) == CHOOSE i \in 1..Len(Script) : Script[i] = cmd

Exit(d, code) == [d EXCEPT !.pc = "exited", !.exit = Some(code)]

Logged(d, cmd, ok) == [d EXCEPT !.log = Append(@, [cmd |-> cmd, ok |-> ok])]

(* What follows a command that succeeded.                                 *)
Following(cmd) ==
  IF cmd = "cd terraform" THEN "test tfvars"
  ELSE IF ScriptIndex(cmd) = Len(Script) THEN "end"
  ELSE Script[ScriptIndex(cmd) + 1]

(* set -e: a command that fails ends the script with its status.          *)
ErrExit(d, cmd, ok) ==
  IF ok THEN [Logged(d, cmd, ok) EXCEPT !.pc = Following(cmd)]
        ELSE Exit(Logged(d, cmd, ok), 1)

(* The three `command -v` checks.                                         *)
CheckInstalled(aws, docker, terraform) ==
  /\ deploy.pc = "start"
  /\ deploy' = IF aws /\ docker /\ terraform
                 THEN [deploy EXCEPT !.pc = "cd terraform"]
                 ELSE Exit(deploy, 1)
  /\ UNCHANGED <<env, reqVars, now, dbVars, hist, stat, ui, newerRows>>

(* [ ! -f terraform.tfvars ]: copy the example and stop; then            *)
(* [ ! -d .terraform ] decides whether terraform init runs.               *)
CheckTfvars(tfvars, dotTerraform) ==
  /\ deploy.pc = "test tfvars"
  /\ deploy' = IF ~tfvars
                 THEN Exit(Logged([deploy EXCEPT !.tfvarsMissing = TRUE],
                                  "cp terraform.tfvars.example", TRUE), 1)
                 ELSE [deploy EXCEPT !.pc = IF dotTerraform THEN "terraform plan"
                                                            ELSE "terraform init"]
  /\ UNCHANGED <<env, reqVars, now, dbVars, hist, stat, ui, newerRows>>

(* Without pipefail the status of a pipeline is that of its last command. *)
PipelineStatus(statuses) == statuses[Len(statuses)]

(* A simple command of the script.                                        *)
Run(ok) ==
  /\ deploy.pc \in {Script[i] : i \in 1..Len(Script)} \ {"read", "ecr login"}
  /\ deploy' = ErrExit(deploy, deploy.pc, ok)
  /\ UNCHANGED <<env, reqVars, now, dbVars, hist, stat, ui, newerRows>>

(* aws ecr get-login-password | docker login --password-stdin: docker     *)
(* login cannot succeed on the empty input a failed aws leaves.           *)
EcrLogin(awsOk, dockerOk) ==
  /\ deploy.pc = "ecr login"
  /\ dockerOk => awsOk
  /\ deploy' = ErrExit(deploy, "ecr login", PipelineStatus(<<awsOk, dockerOk>>))
  /\ UNCHANGED <<env, reqVars, now, dbVars, hist, stat, ui, newerRows>>

(* read -r stores the line without its leading and trailing blanks.       *)
ReadR(line) == Trim(line)

ConfirmedAnyY(response) == response # <<>> /\ Head(response) \in {"y", "Y"}

(* [[ "$response" =~ ^[Yy]$ ]]                                            *)
Confirmed(response) == Len(response) = 1 /\ response[1] \in {"y", "Y"}

(* read -r response and the test of the answer; at end of input read      *)
(* fails and set -e ends the script.                                      *)
ReadResponse(line) ==
  /\ deploy.pc = "read"
  /\ deploy' =
       IF line = None THEN Exit(Logged(deploy, "read", FALSE), 1)
       ELSE LET d == Logged([deploy EXCEPT !.response = Some(ReadR(line[1]))],
                            "read", TRUE)
            IN IF Confirmed(ReadR(line[1]))
                 THEN [d EXCEPT !.pc = Following("read")]
                 ELSE Exit(d, 0)
  /\ UNCHANGED <<env, reqVars, now, dbVars, hist, stat, ui, newerRows>>

(* The echo lines after the last command.                                 *)
ScriptEnd ==
  /\ deploy.pc = "end"
  /\ deploy' = Exit(deploy, 0)
  /\ UNCHANGED <<env, reqVars, now, dbVars, hist, stat, ui, newerRows>>

(* ---------------------------- specification --------------------------- *)

Parts(files) == {None} \cup {Some(f) : f \in files}
Outcomes(completions) == {None} \cup {Some(c) : c \in completions}

(* The environment of the handlers: time passes, the database comes and goes. *)
Environment ==
  \/ Tick
  \/ DbOutage
  \/ DbRecovery

(* The steps of POST /api/classify.                                       *)
ClassifySteps ==
  \/ \E r \in Requests, part \in Parts(Files) : Upload(r, part)
  \/ \E r \in Requests : Classify(r)
  \/ \E r \in Requests, ok \in BOOLEAN : UnlinkNoKey(r, ok)
  \/ \E r \in Requests, ok \in BOOLEAN : ReadFileDone(r, ok)
  \/ \E r \in Requests, outcome \in Outcomes(Completions) : OpenAIDone(r, outcome)
  \/ \E r \in Requests, ok \in BOOLEAN : S3Done(r, ok)
  \/ \E r \in Requests : InsertDone(r)
  \/ \E r \in Requests, ok \in BOOLEAN : UnlinkOk(r, ok)
  \/ \E r \in Requests, ok \in BOOLEAN : UnlinkCatch(r, ok)

(* Request handling, with the table as the start-up or the script left it. *)
Next ==
  \/ ClassifySteps
  \/ Environment

Spec == Init /\ [][Next]_vars

(* The upload filter over every file of AllFiles.                         *)
NextFilter ==
  \/ \E r \in Requests, part \in Parts(AllFiles) : Upload(r, part)
  \/ \E r \in Requests : Classify(r)

SpecFilter == Init /\ [][NextFilter]_vars

(* The normalisation over every completion of AllCompletions, with no     *)
(* persistence configured.                                                *)
InitNormalize ==
  /\ Init
  /\ env = [OPENAI_KEY |-> TRUE, S3_BUCKET_NAME |-> FALSE, DB_HOST |-> FALSE]
  /\ db = "up"
  /\ table = "absent"

NextNormalize ==
  \/ \E r \in Requests : Upload(r, Some(File(JpgName, ImageJpeg, 1024)))
  \/ \E r \in Requests : Classify(r)
  \/ \E r \in Requests : ReadFileDone(r, TRUE)
  \/ \E r \in Requests, outcome \in Outcomes(AllCompletions) : OpenAIDone(r, outcome)
  \/ \E r \in Requests : UnlinkOk(r, TRUE)
  \/ \E r \in Requests : UnlinkCatch(r, TRUE)

SpecNormalize == InitNormalize /\ [][NextNormalize]_vars

(* The database start-up sequence, with no request in flight.             *)
NextStartup ==
  \/ ProbeConnected
  \/ ProbeQueried
  \/ ProbeInterval
  \/ InitTimerFired
  \/ InitStep
  \/ DbOutage
  \/ DbRecovery

SpecStartup == Init /\ [][NextStartup]_vars

(* A table left by earlier requests: any timestamps and keys.             *)
StoredRow(i, t, hasKey) ==
  [ id |-> i,
    s3_key |-> IF hasKey THEN Some(S3Key(t, i)) ELSE None,
    is_hot_dog |-> (i % 2 = 1),
    model |-> "gpt-4o",
    timestamp |-> t,
    request_metadata |-> [originalFilename |-> JpgName, mimeType |-> ImageJpeg],
    req |-> 0 ]

StoredTables ==
  UNION { { [i \in 1..n |-> StoredRow(i, ts[i], ks[i])] :
              ts \in [1..n -> 0..MaxClock],
              ks \in [1..n -> BOOLEAN] } :
          n \in 0..MaxRows }

LimitParams ==
  { None, Some(<<"a","b","c">>), Some(<<"0">>), Some(<<"1">>), Some(<<"2">>),
    Some(<<"-","1">>), Some(<<"1","0">>) }

OffsetParams ==
  { None, Some(<<"x">>), Some(<<"0">>), Some(<<"1">>), Some(<<"-","1">>) }

Queries == [limit : LimitParams, offset : OffsetParams]

(* GET /api/history over a stored table.                                  *)
InitHistory ==
  /\ env \in [OPENAI_KEY : {TRUE}, S3_BUCKET_NAME : BOOLEAN, DB_HOST : BOOLEAN]
  /\ reqs = [r \in Requests |-> NewRequest]
  /\ uploads = {}
  /\ s3Objects = {}
  /\ table \in {"absent", "script"}
  /\ rows \in IF pool /\ tableExists THEN StoredTables ELSE {<<>>}
  /\ now = MaxClock
  /\ db \in {"up", "down"}
  /\ dbConnected = FALSE
  /\ probes = [connect |-> 0, query |-> 0]
  /\ initTimer = IF pool THEN "fired" ELSE "off"
  /\ initPc = "idle"
  /\ clients = 0
  /\ hist = NewHistory
  /\ stat = NewStatus
  /\ ui = NewUi
  /\ newerRows = 0
  /\ deploy = NewDeploy

NextHistory ==
  \/ \E q \in Queries : HistoryRequest(q)
  \/ \E o \in TimestampOrders : HistoryQueryDone(o)
  \/ \E failed \in SUBSET (1..Len(hist.selected)) : HistoryPresignDone(failed)

SpecHistory == InitHistory /\ [][NextHistory]_vars

(* Classification followed by GET /api/history, with the database         *)
(* configured and reachable and its table present.                        *)
InitRoundTrip ==
  /\ Init
  /\ env.OPENAI_KEY
  /\ env.DB_HOST
  /\ db = "up"
  /\ table = "script"

DefaultQuery == [limit |-> None, offset |-> None]

NextRoundTrip ==
  \/ \E r \in Requests, part \in Parts(Files) : Upload(r, part)
  \/ \E r \in Requests : Classify(r)
  \/ \E r \in Requests, ok \in BOOLEAN : ReadFileDone(r, ok)
  \/ \E r \in Requests, outcome \in Outcomes(Completions) : OpenAIDone(r, outcome)
  \/ \E r \in Requests, ok \in BOOLEAN : S3Done(r, ok)
  \/ \E r \in Requests : InsertDone(r)
  \/ \E r \in Requests, ok \in BOOLEAN : UnlinkOk(r, ok)
  \/ \E r \in Requests, ok \in BOOLEAN : UnlinkCatch(r, ok)
  \/ Tick
  \/ HistoryRequest(DefaultQuery)
  \/ \E o \in TimestampOrders : HistoryQueryDone(o)
  \/ \E failed \in SUBSET (1..Len(hist.selected)) : HistoryPresignDone(failed)

SpecRoundTrip == InitRoundTrip /\ [][NextRoundTrip]_vars

(* The whole server: the three endpoints and the start-up sequence, with  *)
(* one upload and one classifier reply and the database as Init left it.  *)
NextServer ==
  \/ \E r \in Requests, part \in {None, Some(File(JpgName, ImageJpeg, 1024))} :
        Upload(r, part)
  \/ \E r \in Requests : Classify(r)
  \/ \E r \in Requests : UnlinkNoKey(r, TRUE)
  \/ \E r \in Requests : ReadFileDone(r, TRUE)
  \/ \E r \in Requests,
         outcome \in {None, Some(Completion("gpt-4o", <<Some(HotDog)>>))} :
        OpenAIDone(r, outcome)
  \/ \E r \in Requests : S3Done(r, TRUE)
  \/ \E r \in Requests : InsertDone(r)
  \/ \E r \in Requests : UnlinkOk(r, TRUE)
  \/ \E r \in Requests : UnlinkCatch(r, TRUE)
  \/ HistoryRequest(DefaultQuery)
  \/ \E o \in TimestampOrders : HistoryQueryDone(o)
  \/ HistoryPresignDone({})
  \/ StatusRequest
  \/ StatusConnected
  \/ StatusQueried
  \/ ProbeConnected
  \/ ProbeQueried
  \/ ProbeInterval
  \/ InitTimerFired
  \/ InitStep

SpecServer == Init /\ [][NextServer]_vars

(* The browser and the server behind it: database configured and up, no   *)
(* bucket.                                                                *)
InitClient ==
  /\ Init
  /\ env.OPENAI_KEY /\ env.DB_HOST /\ ~env.S3_BUCKET_NAME
  /\ db = "up"
  /\ table = "script"

(* The first submission of the browser is followed to the server.         *)
FirstSubmission == InFlightPosts = 0 /\ reqs[ClientRequest].pc = "idle"

NextClient ==
  \/ FirstSubmission /\ SelectFile
  \/ FirstSubmission /\ Submit
  \/ InFlightPosts > 0 /\ Upload(ClientRequest, Some(File(JpgName, ImageJpeg, 1024)))
  \/ Classify(ClientRequest)
  \/ ReadFileDone(ClientRequest, TRUE)
  \/ \E outcome \in {None, Some(Completion("gpt-4o", <<Some(HotDog)>>))} :
        OpenAIDone(ClientRequest, outcome)
  \/ InsertDone(ClientRequest)
  \/ UnlinkOk(ClientRequest, TRUE)
  \/ UnlinkCatch(ClientRequest, TRUE)
  \/ /\ reqs[ClientRequest].pc = "done"
     /\ \E kind \in {"live", "stale"} :
          ClassifyResolved(kind, Some(reqs[ClientRequest].responses[1]))
  \/ PollTick
  \/ \E page \in {"home", "architecture"} : Navigate(page)
  \/ OtherClassified
  \/ FetchQueried
  \/ \E kind \in {"hit", "miss"}, ok \in BOOLEAN : FetchResolved(kind, ok)

(* The interval keeps firing while it is armed, the server answers every  *)
(* fetch in flight, and the browser handles every answer.                 *)
SpecClient ==
  /\ InitClient
  /\ [][NextClient]_vars
  /\ WF_vars(PollTick)
  /\ WF_vars(FetchQueried)
  /\ WF_vars(\E kind \in {"hit", "miss"}, ok \in BOOLEAN : FetchResolved(kind, ok))

(* What the user may type at the prompt; None is end of input.            *)
Answers ==
  { None, Some(<<"y">>), Some(<<"Y">>), Some(<<"n">>), Some(<<>>),
    Some(<<"y", "e", "s">>), Some(<<" ", "y">>), Some(<<"Y", "y">>) }

NextDeploy ==
  \/ \E aws \in BOOLEAN, docker \in BOOLEAN, terraform \in BOOLEAN :
        CheckInstalled(aws, docker, terraform)
  \/ \E tfvars \in BOOLEAN, dotTerraform \in BOOLEAN : CheckTfvars(tfvars, dotTerraform)
  \/ \E ok \in BOOLEAN : Run(ok)
  \/ \E awsOk \in BOOLEAN, dockerOk \in BOOLEAN : EcrLogin(awsOk, dockerOk)
  \/ \E line \in Answers : ReadResponse(line)
  \/ ScriptEnd

SpecDeploy == Init /\ [][NextDeploy]_vars

(* Everything that checks a client out of the pool and holds it across an *)
(* await, with the database failing and recovering.                       *)
NextPool ==
  \/ NextStartup
  \/ StatusRequest
  \/ StatusConnected
  \/ StatusQueried

SpecPool == Init /\ [][NextPool]_vars

(* The upload form on its own: the server's answer to a POST is any of    *)
(* ClassifyResponses, or the fetch is rejected.                           *)
InitForm ==
  /\ Init
  /\ env = [OPENAI_KEY |-> TRUE, S3_BUCKET_NAME |-> FALSE, DB_HOST |-> FALSE]
  /\ db = "up"
  /\ table = "absent"

ClassifyResponses ==
  { None,
    Some([status |-> 200, result |-> HotDog, timestamp |-> 0, model |-> "gpt-4o"]),
    Some([status |-> 500, error |-> "Connection error."]) }

NextForm ==
  \/ SelectFile
  \/ Submit
  \/ \E kind \in {"live", "stale"}, resp \in ClassifyResponses : ClassifyResolved(kind, resp)
  \/ \E page \in {"home", "architecture"} : Navigate(page)
  \/ FetchQueried
  \/ \E kind \in {"hit", "miss"}, ok \in BOOLEAN : FetchResolved(kind, ok)

SpecForm == InitForm /\ [][NextForm]_vars

(* ------------------------------- claims ------------------------------- *)

Done(r) == reqs[r].pc = "done"
Responded(r) == reqs[r].responses # <<>>
Sent200(r) == Responded(r) /\ reqs[r].responses[1].status = 200
RowsOf(r) == {i \in 1..Len(rows) : rows[i].req = r}
ObjectsOf(r) == {k \in s3Objects : k.filename = r}
Labels == {HotDog, NotHotDog}

(* C1: every 200 response of POST /api/classify carries a result that is  *)
(* exactly "Hot Dog" or "Not Hot Dog", whatever the classifier returned.  *)
C1_ResultIsLabel ==
  \A r \in Requests :
    \A i \in 1..Len(reqs[r].responses) :
      reqs[r].responses[i].status = 200 => reqs[r].responses[i].result \in Labels

(* A 200 response to a reply whose text is neither label.                 *)
C1_Witness ==
  \E r \in Requests :
    /\ Sent200(r)
    /\ reqs[r].completion[1].choices # <<>>
    /\ reqs[r].completion[1].choices[1] # None
    /\ reqs[r].completion[1].choices[1][1] \notin Labels
    /\ reqs[r].completion[1].choices[1][1] # <<>>

(* The reply has a text that is "Hot Dog" between two runs of white space. *)
IsPaddedHotDog(t) ==
  \E i \in 1..Len(t) :
    /\ i + Len(HotDog) - 1 <= Len(t)
    /\ SubSeq(t, i, i + Len(HotDog) - 1) = HotDog
    /\ \A j \in 1..(i - 1) : t[j] \in WhiteSpace
    /\ \A j \in (i + Len(HotDog))..Len(t) : t[j] \in WhiteSpace

ReplyIsHotDog(completion) ==
  /\ completion.choices # <<>>
  /\ completion.choices[1] # None
  /\ IsPaddedHotDog(completion.choices[1][1])

(* C2: the result is "Hot Dog" if and only if the reply, trimmed, is      *)
(* exactly "Hot Dog"; a missing, null or empty reply and every other      *)
(* reply give "Not Hot Dog".                                              *)
C2_HotDogIffTrimmedReply ==
  \A r \in Requests :
    Sent200(r) =>
      /\ ReplyIsHotDog(reqs[r].completion[1]) => reqs[r].responses[1].result = HotDog
      /\ ~ReplyIsHotDog(reqs[r].completion[1]) => reqs[r].responses[1].result = NotHotDog

(* A "Hot Dog" result for a reply that needed trimming.                   *)
C2_Witness ==
  \E r \in Requests :
    /\ Sent200(r)
    /\ reqs[r].responses[1].result = HotDog
    /\ reqs[r].completion[1].choices[1][1] # HotDog

(* C3: once the classification succeeded the response is 200 with the     *)
(* result, the model and the timestamp taken before the classifier call,  *)
(* whatever S3 and the database did; neither is attempted twice.          *)
C3_PersistenceBestEffort ==
  \A r \in Requests :
    /\ reqs[r].s3Attempts <= 1
    /\ reqs[r].dbAttempts <= 1
    /\ (Done(r) /\ reqs[r].completion # None) =>
          reqs[r].responses =
            << [status |-> 200,
                result |-> reqs[r].result[1],
                timestamp |-> reqs[r].timestamp[1],
                model |-> reqs[r].completion[1].model] >>

(* A 200 response after both the S3 upload and the insert failed.         *)
C3_Witness ==
  \E r \in Requests : Sent200(r) /\ reqs[r].s3Failed /\ reqs[r].dbFailed

(* C4 as stated: with a database configured, every request that uploads  *)
(* a file writes exactly one row.                                         *)
C4_OneRowPerUpload ==
  \A r \in Requests :
    (pool /\ Done(r) /\ reqs[r].file # None) => Cardinality(RowsOf(r)) = 1

(* C4 amended: with a database configured, a request that uploads a file  *)
(* writes at most one row: exactly one when its classification and its    *)
(* insert both succeeded, none otherwise.                                 *)
C4_AtMostOneRow ==
  \A r \in Requests :
    /\ Cardinality(RowsOf(r)) <= 1
    /\ (pool /\ Done(r) /\ reqs[r].file # None) =>
          (Cardinality(RowsOf(r)) = 1 <=> (reqs[r].completion # None /\ ~reqs[r].dbFailed))

(* A completed request that wrote its row.                                *)
C4_Witness ==
  \E r \in Requests : Done(r) /\ Cardinality(RowsOf(r)) = 1

(* C5: S3 and the insert are attempted only after the classifier replied  *)
(* and the reply was normalised; a request that ends in the catch block   *)
(* attempted neither and leaves no object and no row.                     *)
C5_PersistAfterClassification ==
  \A r \in Requests :
    /\ (reqs[r].s3Attempts > 0 \/ reqs[r].dbAttempts > 0) =>
          (reqs[r].completion # None /\ reqs[r].result # None)
    /\ reqs[r].error # None =>
          /\ reqs[r].s3Attempts = 0
          /\ reqs[r].dbAttempts = 0
          /\ ObjectsOf(r) = {}
          /\ RowsOf(r) = {}

(* A request whose classifier call failed, with S3 and the database configured. *)
C5_Witness ==
  \E r \in Requests :
    /\ Done(r)
    /\ reqs[r].classifierCalls = 1
    /\ reqs[r].error # None
    /\ pool
    /\ s3Client

(* C6: with S3 configured, the image is uploaded and its key received     *)
(* before the image is sent to the classifier.                            *)
C6_S3BeforeClassifier ==
  \A r \in Requests :
    (s3Client /\ reqs[r].classifierCalls > 0) => reqs[r].s3Key # None

InitRunning == initPc \in {"connect", "create", "index1", "index2", "index3"}

(* C7: with a database configured and reachable throughout, once the      *)
(* start-up timer has fired and no initialisation is running, the table   *)
(* exists.                                                                *)
C7_TableAutoCreated ==
  (pool /\ db = "up" /\ initTimer = "fired" /\ ~InitRunning) => tableExists

(* C8: a request whose file was stored has had its deletion attempted     *)
(* when the response is sent; the file remains only if unlink failed.     *)
C8_TempFileDeleted ==
  \A r \in Requests :
    (Responded(r) /\ reqs[r].file # None) =>
      /\ reqs[r].unlinkAttempts >= 1
      /\ r \in uploads => reqs[r].unlinkFailed

(* A classifier failure answered with the temporary file gone.            *)
C8_Witness ==
  \E r \in Requests :
    /\ Responded(r)
    /\ reqs[r].file # None
    /\ reqs[r].error # None
    /\ r \notin uploads

NothingCalledOrPersisted(r) ==
  /\ reqs[r].classifierCalls = 0
  /\ reqs[r].s3Attempts = 0
  /\ reqs[r].dbAttempts = 0
  /\ ObjectsOf(r) = {}
  /\ RowsOf(r) = {}

(* C9: no file gives 400 'No image file provided', also without a key; a  *)
(* file without OPENAI_KEY gives 500 'OpenAI API key is not configured';  *)
(* in both cases nothing is classified or persisted.                      *)
C9_MissingFileThenMissingKey ==
  \A r \in Requests :
    /\ (Done(r) /\ reqs[r].upload = None) =>
          /\ reqs[r].responses = << [status |-> 400, error |-> "No image file provided"] >>
          /\ NothingCalledOrPersisted(r)
    /\ (Done(r) /\ reqs[r].file # None /\ ~env.OPENAI_KEY) =>
          /\ reqs[r].responses =
                << [status |-> 500, error |-> "OpenAI API key is not configured"] >>
          /\ NothingCalledOrPersisted(r)

(* A request with no file, answered while no key is configured.           *)
C9_Witness ==
  \E r \in Requests : Done(r) /\ reqs[r].upload = None /\ ~env.OPENAI_KEY

AllowedMimeTypes ==
  { <<"i","m","a","g","e","/">> \o t : t \in allowedTypes }

AllowedExtensions ==
  { <<".">> \o t : t \in allowedTypes }

IsAllowedImage(f) ==
  /\ f.mimetype \in AllowedMimeTypes
  /\ ToLowerCase(PathExtname(f.originalname)) \in AllowedExtensions

(* C10: the filter accepts a file only if its MIME type is one of the five *)
(* image types and its extension one of the five extensions; every other  *)
(* file is rejected with the filter's message.                            *)
C10_FilterAllowlist ==
  \A r \in Requests :
    reqs[r].upload # None =>
      /\ reqs[r].file # None => IsAllowedImage(reqs[r].upload[1])
      /\ ~IsAllowedImage(reqs[r].upload[1]) =>
            reqs[r].responses = << [status |-> 500, error |-> FilterError] >>

(* ParseInt, read off the parameter: absent, not starting with a number,  *)
(* or zero.                                                               *)
IsAbsentNonNumericOrZero(param) ==
  \/ param = None
  \/ param[1] = <<>>
  \/ ~IsDigit(param[1][1]) /\ param[1][1] # "-"
  \/ param[1] = <<"0">>

Timestamps(seq) == [i \in 1..Len(seq) |-> seq[i].timestamp]

(* The timestamps of the table, newest first.                             *)
RECURSIVE SortedDesc(_)
SortedDesc(bag) ==
  IF bag = <<>> THEN <<>>
  ELSE LET m == Max({bag[i] : i \in 1..Len(bag)})
           k == CHOOSE i \in 1..Len(bag) : bag[i] = m
       IN <<m>> \o SortedDesc(SubSeq(bag, 1, k - 1) \o SubSeq(bag, k + 1, Len(bag)))

Drop(seq, n) == IF n >= Len(seq) THEN <<>> ELSE SubSeq(seq, n + 1, Len(seq))
Take(seq, n) == IF n >= Len(seq) THEN seq ELSE SubSeq(seq, 1, n)

HistorySent == hist.responses # <<>> /\ hist.responses[1].status = 200

(* C11: a 200 response of GET /api/history holds one item per selected    *)
(* row, newest first: the rows at positions offset+1 .. offset+limit of   *)
(* the table ordered by timestamp, each row at most once; limit is 50 and *)
(* offset is 0 for an absent, non-numeric or zero parameter.              *)
C11_HistoryNewestFirst ==
  /\ (hist.pc # "idle" /\ pool) =>
        /\ IsAbsentNonNumericOrZero(hist.query.limit) => hist.limit = 50
        /\ IsAbsentNonNumericOrZero(hist.query.offset) => hist.offset = 0
  /\ HistorySent =>
        LET items == hist.responses[1].history IN
        /\ Timestamps(items) =
              Take(Drop(SortedDesc(Timestamps(rows)), hist.offset), hist.limit)
        /\ \A i \in 1..Len(items) :
              /\ items[i].id \in 1..Len(rows)
              /\ items[i].timestamp = rows[items[i].id].timestamp
              /\ items[i].id = hist.selected[i].id
        /\ \A i, j \in 1..Len(items) : i # j => items[i].id # items[j].id

(* A response that skipped a row and cut the rest to the limit.           *)
C11_Witness ==
  /\ HistorySent
  /\ hist.offset = 1
  /\ hist.limit = 1
  /\ Len(rows) = 2
  /\ rows[1].timestamp < rows[2].timestamp
  /\ Len(hist.responses[1].history) = 1

(* C12: an item of GET /api/history for a row that POST /api/classify     *)
(* inserted has the label, the model and the timestamp of the response    *)
(* sent for that request.                                                 *)
C12_HistoryMatchesClassify ==
  HistorySent =>
    \A i \in 1..Len(hist.responses[1].history) :
      LET item == hist.responses[1].history[i]
          r == rows[item.id].req
      IN (r \in Requests /\ Sent200(r)) =>
           /\ item.result = reqs[r].responses[1].result
           /\ item.model = reqs[r].responses[1].model
           /\ item.timestamp = reqs[r].responses[1].timestamp

(* A history item for a request that was answered "Hot Dog".              *)
C12_Witness ==
  /\ HistorySent
  /\ \E i \in 1..Len(hist.responses[1].history) :
       LET r == rows[hist.responses[1].history[i].id].req
       IN r \in Requests /\ Sent200(r) /\ reqs[r].responses[1].result = HotDog

NoDatabaseOperation ==
  /\ clients = 0
  /\ InFlightProbes = 0
  /\ initTimer = "off"
  /\ initPc = "idle"
  /\ rows = <<>>
  /\ \A r \in Requests : reqs[r].dbAttempts = 0 /\ ~reqs[r].dbFailed
  /\ hist.pc \notin {"query", "presign"}
  /\ stat.pc \notin {"connect", "query"}

(* C13: without DB_HOST no database operation is attempted; a classified  *)
(* request is still answered 200 with its result, GET /api/db-status      *)
(* answers 200 with connected = false and 'Database not configured', and  *)
(* GET /api/history answers 500 with 'Database not configured'.           *)
C13_DatabaseOptional ==
  ~pool =>
    /\ NoDatabaseOperation
    /\ \A r \in Requests :
          (Done(r) /\ reqs[r].completion # None) =>
            /\ Sent200(r)
            /\ reqs[r].responses[1].result = reqs[r].result[1]
    /\ stat.pc = "done" =>
          /\ Len(stat.responses) = 1
          /\ stat.responses[1].status = 200
          /\ stat.responses[1].connected = FALSE
          /\ stat.responses[1].message = "Database not configured"
    /\ hist.pc = "done" =>
          hist.responses = << [status |-> 500, error |-> "Database not configured"] >>

(* Without DB_HOST: a request classified and answered, and both other     *)
(* endpoints answered.                                                    *)
C13_Witness ==
  /\ ~pool
  /\ \E r \in Requests : Sent200(r)
  /\ stat.pc = "done"
  /\ hist.pc = "done"

ClassifiedAndPersisted ==
  /\ ui.result # None
  /\ \E i \in 1..Len(rows) : rows[i].req = ClientRequest

Displayed == ClientRequest \in ui.history

(* C14 as stated: after a successful classification whose record was      *)
(* persisted, while the user stays on the home page and history fetches   *)
(* succeed, the displayed list eventually contains the record.            *)
C14_HistoryEventuallyShown ==
  ClassifiedAndPersisted ~> (Displayed \/ ui.left \/ ui.failed)

(* C14, amended: ... the displayed list eventually contains the record,   *)
(* or fifty rows with a later timestamp have crowded it out of the        *)
(* fetched page.                                                          *)
C14_ShownWhileAmongNewest ==
  ClassifiedAndPersisted ~>
    (Displayed \/ ui.left \/ ui.failed
       \/ newerRows >= ClientHistoryLimit)

(* The record is displayed although other rows are newer.                 *)
C14_Witness ==
  /\ ClassifiedAndPersisted
  /\ Displayed
  /\ ~ui.left /\ ~ui.failed
  /\ newerRows > 0

Ran(cmd) == \E i \in 1..Len(deploy.log) : deploy.log[i].cmd = cmd
Succeeded(cmd) == \E i \in 1..Len(deploy.log) : deploy.log[i] = [cmd |-> cmd, ok |-> TRUE]
AnsweredYes == deploy.response \in {Some(<<"y">>), Some(<<"Y">>)}

(* C15: deploy.sh runs its commands in program order and stops at the     *)
(* first one that fails; the image is built and pushed only after a       *)
(* confirmed terraform apply succeeded, the ECS service is updated only   *)
(* after the push succeeded, and with any answer other than y/Y, or with  *)
(* terraform.tfvars missing, nothing is applied, pushed or updated.       *)
C15_DeployInOrder ==
  /\ \A i \in 1..Len(deploy.log), j \in 1..Len(deploy.log) :
        (i < j /\ ~deploy.tfvarsMissing) =>
          ScriptIndex(deploy.log[i].cmd) < ScriptIndex(deploy.log[j].cmd)
  /\ \A i \in 1..Len(deploy.log) :
        ~deploy.log[i].ok => (i = Len(deploy.log) /\ deploy.exit = Some(1))
  /\ (Ran("docker build") \/ Ran("docker push")) =>
        (AnsweredYes /\ Succeeded("terraform apply"))
  /\ Ran("docker push") => Succeeded("docker build")
  /\ Ran("aws ecs update-service") => Succeeded("docker push")
  /\ ((deploy.response # None /\ ~AnsweredYes) \/ deploy.tfvarsMissing) =>
        /\ ~Ran("terraform apply")
        /\ ~Ran("docker push")
        /\ ~Ran("aws ecs update-service")

(* A run that was confirmed and went through to the end.                  *)
C15_Witness ==
  /\ deploy.exit = Some(0)
  /\ Succeeded("aws ecs update-service")

ReachedHandler(r) == reqs[r].upload = None \/ reqs[r].file # None

ExpectedStatus(r) ==
  IF reqs[r].file = None THEN 400
  ELSE IF reqs[r].completion # None THEN 200
  ELSE 500

(* C16: a classify request that reached the handler sends exactly one     *)
(* response: 400, 200 or 500 as the file, the key and the classifier      *)
(* decide, with a JSON body that has result (200) or error; a failed      *)
(* unlink changes neither the status nor whether the response is sent.    *)
C16_ExactlyOneResponse ==
  \A r \in Requests :
    /\ Len(reqs[r].responses) <= 1
    /\ (Done(r) /\ ReachedHandler(r)) =>
          /\ Len(reqs[r].responses) = 1
          /\ reqs[r].responses[1].status = ExpectedStatus(r)
          /\ IF reqs[r].responses[1].status = 200
               THEN "result" \in DOMAIN reqs[r].responses[1]
               ELSE "error" \in DOMAIN reqs[r].responses[1]

(* A 200 sent after the unlink failed: the temporary file is still there. *)
C16_Witness ==
  \E r \in Requests :
    /\ Done(r)
    /\ reqs[r].unlinkFailed
    /\ r \in uploads
    /\ reqs[r].completion # None
    /\ Sent200(r)

(* C17: the s3_key of an inserted row is null or the key of an object     *)
(* that the same request had uploaded when the row was inserted; it is    *)
(* null exactly when S3 is not configured or that upload failed.          *)
C17_RowKeyIsUploadedObject ==
  \A i \in 1..Len(rows) :
    LET r == rows[i].req IN
    /\ rows[i].s3_key # None =>
          /\ rows[i].s3_key[1] \in s3Objects
          /\ rows[i].s3_key[1].filename = r
          /\ reqs[r].s3Attempts = 1
    /\ rows[i].s3_key = None <=> (~s3Client \/ reqs[r].s3Failed)

(* A row that carries the key of a stored object.                         *)
C17_Witness ==
  \E i \in 1..Len(rows) :
    /\ rows[i].s3_key # None
    /\ rows[i].s3_key[1] \in s3Objects

(* C18: a request whose file the type filter rejected never reaches the   *)
(* handler: no classifier call, no S3 upload, no insert.                  *)
C18_RejectedNeverProcessed ==
  \A r \in Requests :
    (reqs[r].upload # None /\ ~fileFilter(reqs[r].upload[1])) =>
      /\ reqs[r].pc = "done"
      /\ reqs[r].file = None
      /\ r \notin uploads
      /\ NothingCalledOrPersisted(r)

(* A rejected upload, answered, on a server with everything configured.   *)
C18_Witness ==
  \E r \in Requests :
    /\ reqs[r].upload # None
    /\ ~fileFilter(reqs[r].upload[1])
    /\ Responded(r)
    /\ env.OPENAI_KEY /\ s3Client /\ pool

(* C19: the response of GET /api/history has one item per selected row;   *)
(* an item's imageUrl is non-null only if its row has an s3_key, S3 is    *)
(* configured and the presign succeeded, and a failed presign nulls that  *)
(* item alone while the response is still 200.                            *)
C19_ImageUrlOnlyWhenPresigned ==
  (hist.pc = "done" /\ hist.selected # <<>>) =>
    /\ Len(hist.responses) = 1
    /\ hist.responses[1].status = 200
    /\ Len(hist.responses[1].history) = Len(hist.selected)
    /\ \A i \in 1..Len(hist.selected) :
          LET item == hist.responses[1].history[i]
              row == hist.selected[i]
          IN /\ item.id = row.id
             /\ item.imageUrl # None <=>
                   (row.s3_key # None /\ s3Client /\ i \notin hist.presignFailed)
             /\ item.imageUrl # None => item.imageUrl[1] = SignedUrl(row.s3_key[1])

(* Two rows with a key: the presign of one failed, the other has its URL. *)
C19_Witness ==
  /\ hist.pc = "done"
  /\ hist.presignFailed # {}
  /\ \E i \in 1..Len(hist.selected) : hist.responses[1].history[i].imageUrl # None

(* The clients held by operations that are still running.                 *)
HeldClients ==
  probes.query
    + (IF initPc \in {"create", "index1", "index2", "index3"} THEN 1 ELSE 0)
    + (IF stat.pc = "query" THEN 1 ELSE 0)

(* C20: every client checked out by testDatabaseConnection,               *)
(* initializeDatabase or GET /api/db-status is released when the          *)
(* operation ends, whether its queries succeeded or threw: the clients    *)
(* checked out are those of the operations still running.                 *)
C20_ClientsReleased == clients = HeldClients

(* C21: in the client at most one classify request is in flight, and the *)
(* form shown has loading true for as long as one is.                     *)
C21_OneClassifyInFlight ==
  /\ InFlightPosts <= 1
  /\ (InFlightPosts > 0 /\ ui.page = "home") => ui.loading

====
